---- MODULE Spec2Model ----
(***************************************************************************)
(* A model of github.com/chinnareddy578/httpclient: the functional-option  *)
(* construction of HTTPClient, the retry loop of HTTPClient.Do, the        *)
(* header-injecting RoundTripper and the verb helpers.                     *)
(***************************************************************************)
EXTENDS Integers, Sequences, FiniteSets, TLC

(***************************************************************************)
(* Bounds of the model.                                                    *)
(***************************************************************************)
\* largest retry count passed to WithRetry
MaxRetry == 2
\* longest option list passed to NewHTTPClient
MaxOptions == 2
\* largest retry count of the clients the verb helpers are called on
MaxHelperRetry == 1
MaxBody == 2
MaxCallRetry == 1

(***************************************************************************)
(* time.Duration: a signed 64-bit count of nanoseconds.  The magnitude is  *)
(* kept as its binary digits, most significant first, without leading      *)
(* zeros, so that values beyond 2^31 and the float64 rounding of           *)
(* WithExponentialBackoff can be computed digit by digit.                  *)
(***************************************************************************)
Int64Bits == 63
Float64MantissaBits == 53

RECURSIVE Bits(_)
Bits(n) == IF n = 0 THEN <<>> ELSE Append(Bits(n \div 2), n % 2)

Zeros(k) == [j \in 1..k |-> 0]
Ones(k) == [j \in 1..k |-> 1]

\* b * 2^k on digit sequences
Shl(b, k) == IF b = <<>> THEN <<>> ELSE b \o Zeros(k)

\* b + 1 on digit sequences
RECURSIVE Inc(_)
Inc(b) ==
    IF b = <<>> THEN <<1>>
    ELSE IF b[Len(b)] = 0 THEN [b EXCEPT ![Len(b)] = 1]
    ELSE Append(Inc(SubSeq(b, 1, Len(b) - 1)), 0)

Duration(n) == [neg |-> FALSE, bits |-> Bits(n)]
Millisecond == 1000000
Second == 1000000000
ZeroDuration == Duration(0)
MaxInt64 == [neg |-> FALSE, bits |-> Ones(Int64Bits)]
MinInt64 == [neg |-> TRUE, bits |-> <<1>> \o Zeros(Int64Bits)]

\* float64(x) for a non-negative integer x: round to nearest, ties to even,
\* keeping Float64MantissaBits significant digits.
Float64(b) ==
    IF Len(b) <= Float64MantissaBits THEN b
    ELSE LET head == SubSeq(b, 1, Float64MantissaBits)
             tail == SubSeq(b, Float64MantissaBits + 1, Len(b))
             half == <<1>> \o Zeros(Len(tail) - 1)
             above == tail[1] = 1 /\ tail # half
             tie == tail = half
             up == above \/ (tie /\ head[Float64MantissaBits] = 1)
         IN  (IF up THEN Inc(head) ELSE head) \o Zeros(Len(tail))

\* time.Duration(f) for a non-negative integral float f.  A value that int64
\* cannot represent converts to an implementation-dependent result: the
\* minimum int64 on amd64, the maximum int64 where the conversion saturates.
DurationOfFloat(f) ==
    IF Len(f) <= Int64Bits THEN {[neg |-> FALSE, bits |-> f]}
    ELSE {MinInt64, MaxInt64}

\* The closure WithExponentialBackoff installs:
\*   time.Duration(float64(baseDelay) * math.Pow(2, float64(attempt-1)))
\* for attempt >= 1 and baseDelay >= 0; the set of results a build can give.
ExponentialBackoff(baseDelay, attempt) ==
    DurationOfFloat(Shl(Float64(baseDelay.bits), attempt - 1))

\* hc.backoff is a func value: the default closure of NewHTTPClient, or the
\* closure of WithExponentialBackoff with its captured baseDelay.
DefaultBackoff == [kind |-> "zero", baseDelay |-> ZeroDuration]
ExponentialBackoffFunc(b) == [kind |-> "exponential", baseDelay |-> b]

\* hc.backoff(attempt): the set of results.
CallBackoff(backoff, attempt) ==
    IF backoff.kind = "exponential"
    THEN ExponentialBackoff(backoff.baseDelay, attempt)
    ELSE {ZeroDuration}

(***************************************************************************)
(* Headers.  A Go map[string]string is a function from its keys; nil and   *)
(* the empty map both have no entries.  An http.Header holds one value per *)
(* canonical key, since only Header.Set writes to it.                      *)
(***************************************************************************)
NilMap == <<>>

\* textproto.CanonicalMIMEHeaderKey on the header names of the model
CanonicalMIMEHeaderKey(k) ==
    CASE k = "content-type" -> "Content-Type"
      [] k = "x-app" -> "X-App"
      [] OTHER -> k

\* http.Header.Set(key, value)
HeaderSet(h, key, value) ==
    LET c == CanonicalMIMEHeaderKey(key)
    IN  [n \in DOMAIN h \cup {c} |-> IF n = c THEN value ELSE h[n]]

\* http.Header.Get(key); "" when the header is absent
HeaderGet(h, key) ==
    LET c == CanonicalMIMEHeaderKey(key)
    IN  IF c \in DOMAIN h THEN h[c] ELSE ""

\* the orders in which a range loop may visit the keys of a map
RangeOrders(m) ==
    LET n == Cardinality(DOMAIN m)
    IN  {o \in [1..n -> DOMAIN m] : \A k \in DOMAIN m : \E j \in 1..n : o[j] = k}

\* for key, value := range m { h.Set(key, value) }, visiting in order o
RECURSIVE SetEach(_, _, _)
SetEach(h, m, o) ==
    IF o = <<>> THEN h
    ELSE SetEach(HeaderSet(h, o[1], m[o[1]]), m, Tail(o))

\* the headers such a loop can leave behind
RangeSet(h, m) == {SetEach(h, m, o) : o \in RangeOrders(m)}

(***************************************************************************)
(* Transports.  hc.client.Transport is an interface value: nil, or a       *)
(* pointer to an object.  Objects live in a heap (a sequence indexed by    *)
(* address), so that WithTLSConfig can mutate one in place and a           *)
(* headerTransport can refer to its base.                                  *)
(***************************************************************************)
NilTransport == 0
NilTLS == "nil"

\* &http.Transport{TLSClientConfig: tls}
NewTransport(tls) ==
    [kind |-> "http.Transport", TLSClientConfig |-> tls,
     base |-> NilTransport, headers |-> NilMap]

\* a RoundTripper of another type, supplied by the caller
CustomRoundTripper ==
    [kind |-> "RoundTripper", TLSClientConfig |-> NilTLS,
     base |-> NilTransport, headers |-> NilMap]

\* &headerTransport{base: base, headers: headers}
NewHeaderTransport(base, headers) ==
    [kind |-> "headerTransport", TLSClientConfig |-> NilTLS,
     base |-> base, headers |-> headers]

\* the objects the caller holds before constructing a client
CallerTransport == 1
CallerRoundTripper == 2
\* a standard transport of the caller that already carries a TLS config
CallerTLSTransport == 3
InitialHeap == <<NewTransport(NilTLS), CustomRoundTripper, NewTransport("tlsA")>>

\* transport.(*http.Transport) succeeds
IsHTTPTransport(heap, t) == t # NilTransport /\ heap[t].kind = "http.Transport"

(***************************************************************************)
(* HTTPClient and its options.  An option is a closure over its arguments; *)
(* applying it maps the client under construction and the heap to their    *)
(* new values.                                                             *)
(***************************************************************************)
DefaultLogger == "log.Default()"
\* a nil *log.Logger: calling Printf on it is a nil pointer dereference
NilLogger == "nil"

OptWithRetry(n, d) == [op |-> "WithRetry", retryCount |-> n, retryDelay |-> d]
OptWithExponentialBackoff(b) == [op |-> "WithExponentialBackoff", baseDelay |-> b]
OptWithLogger(l) == [op |-> "WithLogger", logger |-> l]
OptWithTransport(t) == [op |-> "WithTransport", transport |-> t]
OptWithTLSConfig(c) == [op |-> "WithTLSConfig", tlsConfig |-> c]
OptWithDefaultHeaders(m) == [op |-> "WithDefaultHeaders", headers |-> m]
OptWithTimeout(d) == [op |-> "WithTimeout", timeout |-> d]

WithRetry(st, retryCount, retryDelay) ==
    [st EXCEPT !.hc.retryCount = retryCount, !.hc.retryDelay = retryDelay]

WithExponentialBackoff(st, baseDelay) ==
    [st EXCEPT !.hc.backoff = ExponentialBackoffFunc(baseDelay)]

WithLogger(st, logger) == [st EXCEPT !.hc.logger = logger]

WithTransport(st, transport) == [st EXCEPT !.hc.client.Transport = transport]

WithTLSConfigAlwaysFresh(st, tlsConfig) ==
    [st EXCEPT !.heap = Append(@, NewTransport(tlsConfig)),
               !.hc.client.Transport = Len(st.heap) + 1]

WithTLSConfig(st, tlsConfig) ==
    LET t == st.hc.client.Transport
    IN  IF IsHTTPTransport(st.heap, t)
        THEN [st EXCEPT !.heap[t].TLSClientConfig = tlsConfig]
        ELSE [st EXCEPT !.heap = Append(@, NewTransport(tlsConfig)),
                        !.hc.client.Transport = Len(st.heap) + 1]

WithDefaultHeadersNoBase(st, headers) ==
    [st EXCEPT !.heap = Append(@, NewHeaderTransport(st.hc.client.Transport, headers)),
               !.hc.client.Transport = Len(st.heap) + 1]

WithDefaultHeaders(st, headers) ==
    LET heap1 == IF st.hc.client.Transport = NilTransport
                 THEN Append(st.heap, NewTransport(NilTLS))
                 ELSE st.heap
        originalTransport == IF st.hc.client.Transport = NilTransport
                             THEN Len(heap1)
                             ELSE st.hc.client.Transport
    IN  [st EXCEPT !.heap = Append(heap1, NewHeaderTransport(originalTransport, headers)),
                   !.hc.client.Transport = Len(heap1) + 1]

WithTimeout(st, timeout) == [st EXCEPT !.hc.client.Timeout = timeout]

\* opt(hc)
ApplyOption(st, opt) ==
    CASE opt.op = "WithRetry" -> WithRetry(st, opt.retryCount, opt.retryDelay)
      [] opt.op = "WithExponentialBackoff" -> WithExponentialBackoff(st, opt.baseDelay)
      [] opt.op = "WithLogger" -> WithLogger(st, opt.logger)
      [] opt.op = "WithTransport" -> WithTransport(st, opt.transport)
      [] opt.op = "WithTLSConfig" -> WithTLSConfig(st, opt.tlsConfig)
      [] opt.op = "WithDefaultHeaders" -> WithDefaultHeaders(st, opt.headers)
      [] opt.op = "WithTimeout" -> WithTimeout(st, opt.timeout)

\* the struct literal NewHTTPClient starts from
NewClientLiteral ==
    [client |-> [Timeout |-> ZeroDuration, Transport |-> NilTransport],
     retryCount |-> 0,
     retryDelay |-> ZeroDuration,
     logger |-> DefaultLogger,
     backoff |-> DefaultBackoff]

RECURSIVE ApplyOptionsReversed(_, _)
ApplyOptionsReversed(st, opts) ==
    IF opts = <<>> THEN st
    ELSE ApplyOption(ApplyOptionsReversed(st, Tail(opts)), Head(opts))

\* for _, opt := range options { opt(hc) }
RECURSIVE ApplyOptions(_, _)
ApplyOptions(st, opts) ==
    IF opts = <<>> THEN st
    ELSE ApplyOptions(ApplyOption(st, Head(opts)), Tail(opts))

\* NewHTTPClient(options...): the client and the heap it leaves
BuildClient(heap, opts) ==
    ApplyOptions([hc |-> NewClientLiteral, heap |-> heap], opts)

(***************************************************************************)
(* Requests, responses and errors.                                         *)
(***************************************************************************)
GoodURL == "http://example.test/users"
BadURL == ":missing-scheme"

\* url.Parse inside http.NewRequest succeeds
ParsesURL(url) == url = GoodURL

\* json.Marshal succeeds: a channel cannot be encoded
Marshals(jsonBody) == jsonBody # "chan"

NilErr == [kind |-> "nil", attempt |-> 0]
URLErr == [kind |-> "parse url", attempt |-> 0]
MarshalErr == [kind |-> "json: unsupported type", attempt |-> 0]
Non2xxErr == [kind |-> "non-2xx response received", attempt |-> 0]
\* the error client.Do gave on the attempt-th send
TransportErr(attempt) == [kind |-> "transport", attempt |-> attempt]

NilResponse == [attempt |-> 0, StatusCode |-> 0]
\* Body is the reader the request was built with and BodyRead tells whether
\* a send has read it to its end: nothing rewinds it afterwards
NilRequest == [Method |-> "", URL |-> "", Header |-> NilMap, Body |-> "nil",
               BodyRead |-> FALSE]

\* http.NewRequest(method, url, body) when the URL parses
NewRequest(method, url, body) ==
    [Method |-> method, URL |-> url, Header |-> NilMap, Body |-> body,
     BodyRead |-> FALSE]

\* what req.Body yields to the next send: the bytes no earlier send has read
BodyLeft(r) ==
    IF r.Body = "nil" THEN "nil"
    ELSE IF r.BodyRead THEN ""
    ELSE r.Body

\* resp.StatusCode >= 200 && resp.StatusCode < 300
Is2xxInclusive(code) == code >= 200 /\ code <= 300

Is2xxAbove200(code) == code > 200 /\ code < 300

Is2xxBelow500(code) == code >= 200 /\ code < 500

Is2xx(code) == code >= 200 /\ code < 300

\* the calls of resp.Body.Close() Do makes on a response with this status
BodyClosesNever(code) == 0

BodyCloses(code) == IF Is2xx(code) THEN 0 ELSE 1

\* lastErr = err
LastErrKeepsFirst(old, err) == IF old = NilErr THEN err ELSE old

LastErrAfter(old, err) == err

\* i <= hc.retryCount, the loop condition of Do
LoopRunsExclusive(j, retryCount) == j < retryCount

LoopRuns(j, retryCount) == j <= retryCount

(***************************************************************************)
(* headerTransport.RoundTrip and the chain of RoundTrippers below          *)
(* hc.client.Transport.  A delivery is the sequence of hops a request      *)
(* makes: each hop names the RoundTripper reached and the header the       *)
(* request carries on arrival; the last hop is the transport that sends.   *)
(***************************************************************************)
Hop(t, header) == [transport |-> t, header |-> header]

\* the header after headerTransport.RoundTrip's loop over ht.headers
HeaderTransportKeepsExisting(header, headers) ==
    {[n \in DOMAIN header \cup DOMAIN h2 |->
         IF n \in DOMAIN header THEN header[n] ELSE h2[n]] :
       h2 \in RangeSet(NilMap, headers)}

HeaderTransportSets(header, headers) == RangeSet(header, headers)

RECURSIVE RoundTrip(_, _, _)
RoundTrip(hp, t, header) ==
    IF t # NilTransport /\ hp[t].kind = "headerTransport"
    THEN UNION {{<<Hop(t, header)>> \o rest : rest \in RoundTrip(hp, hp[t].base, h2)} :
                  h2 \in HeaderTransportSets(header, hp[t].headers)}
    ELSE {<<Hop(t, header)>>}

(***************************************************************************)
(* State.                                                                  *)
(***************************************************************************)
VARIABLES
    pc,       \* "new", "ready", "loop", "send", "wait", "returned" or "panicked"
    options,  \* the option list given to NewHTTPClient
    hc,       \* the HTTPClient
    heap,     \* the transport objects
    call,     \* the call in progress: the helper and its arguments
    headers,  \* the caller's header map, as the caller sees it
    req,      \* the *http.Request of the call
    i,        \* the loop variable of Do
    lastErr,  \* the local lastErr of Do
    sent,     \* one entry per hc.client.Do(req): delivery, body, outcome, closes
    delays,   \* the arguments of time.Sleep, in order
    log,      \* the lines given to hc.logger.Printf, in order
    ret,      \* what the call returned: [resp, err]
    second,   \* a second client constructed after hc: its options and fields
    reader,   \* a call of ReadResponseBody or ReadJSONResponseBody
    calls     \* the Do calls running interleaved through hc, by call

vars == <<pc, options, hc, heap, call, headers, req, i, lastErr, sent, delays, log, ret,
          second, reader, calls>>

NoCall == [helper |-> "", url |-> "", jsonBody |-> "", hdrs |-> NilMap]
NoReturn == [resp |-> NilResponse, err |-> NilErr]
NoClient == [options |-> <<>>, hc |-> NewClientLiteral, built |-> FALSE]
NoRead == [fn |-> "", StatusCode |-> 0, Body |-> <<>>, target |-> 0,
           body |-> <<>>, err |-> NilErr, decoded |-> 0]
\* the goroutines that call hc.Do
CallIds == {1, 2}
IdleCall == [pc |-> "idle", req |-> NilRequest, i |-> 0, lastErr |-> NilErr,
             sent |-> <<>>, delays |-> <<>>, log |-> <<>>, ret |-> NoReturn]
NoCalls == [c \in CallIds |-> IdleCall]

Init ==
    /\ pc = "new"
    /\ options = <<>>
    /\ hc = NewClientLiteral
    /\ heap = InitialHeap
    /\ call = NoCall
    /\ headers = NilMap
    /\ req = NilRequest
    /\ i = 0
    /\ lastErr = NilErr
    /\ sent = <<>>
    /\ delays = <<>>
    /\ log = <<>>
    /\ ret = NoReturn
    /\ second = NoClient
    /\ reader = NoRead
    /\ calls = NoCalls

\* NewHTTPClient(options...)
NewHTTPClient(opts) ==
    /\ pc = "new"
    /\ LET st == BuildClient(heap, opts)
       IN  /\ hc' = st.hc
           /\ heap' = st.heap
    /\ options' = opts
    /\ pc' = "ready"
    /\ UNCHANGED <<second, reader, calls, call, headers, req, i, lastErr, sent, delays, log, ret>>

\* a second NewHTTPClient(options...) that would build on the http.Client of
\* the first instead of a new one
NewHTTPClientSharingClient(opts) ==
    /\ pc = "ready"
    /\ ~second.built
    /\ LET st == ApplyOptions([hc |-> [NewClientLiteral EXCEPT !.client = hc.client],
                               heap |-> heap], opts)
       IN  /\ second' = [options |-> opts, hc |-> st.hc, built |-> TRUE]
           /\ heap' = st.heap
    /\ UNCHANGED <<pc, options, hc, call, headers, req, i, lastErr, sent, delays, log, ret,
                   reader, calls>>

\* a second NewHTTPClient(options...), called after the first returned; the
\* transports the options name are the objects the first call saw
NewHTTPClientAgain(opts) ==
    /\ pc = "ready"
    /\ ~second.built
    /\ LET st == BuildClient(heap, opts)
       IN  /\ second' = [options |-> opts, hc |-> st.hc, built |-> TRUE]
           /\ heap' = st.heap
    /\ UNCHANGED <<pc, options, hc, call, headers, req, i, lastErr, sent, delays, log, ret,
                   reader, calls>>

(***************************************************************************)
(* The verb helpers.  Each builds the request, sets the caller's headers   *)
(* in the order the range loop happens to take, and enters Do.             *)
(***************************************************************************)
\* entry of hc.Do(req): var lastErr error; i := 0
EnterDo(r) ==
    /\ req' = r
    /\ i' = 0
    /\ lastErr' = NilErr
    /\ pc' = "loop"
    /\ UNCHANGED <<ret>>

\* return nil, err before any request exists
ReturnErr(err) ==
    /\ ret' = [resp |-> NilResponse, err |-> err]
    /\ pc' = "returned"
    /\ UNCHANGED <<req, i, lastErr>>

HelperUnchecked(method, url, body, hdrs) ==
    \E h \in RangeSet(NilMap, hdrs) :
       EnterDo([NewRequest(method, url, body) EXCEPT !.Header = h])

\* the common body of Get, Post, Put and Delete
Helper(method, url, body, hdrs) ==
    IF ParsesURL(url)
    THEN \E h \in RangeSet(NilMap, hdrs) :
            EnterDo([NewRequest(method, url, body) EXCEPT !.Header = h])
    ELSE ReturnErr(URLErr)

\* hc.Do(req) called directly with a request the caller built
Do(r) ==
    /\ pc = "ready"
    /\ call' = [helper |-> "Do", url |-> r.URL, jsonBody |-> "", hdrs |-> NilMap]
    /\ headers' = NilMap
    /\ EnterDo(r)
    /\ UNCHANGED <<second, reader, calls, options, hc, heap, sent, delays, log>>

Get(url, hdrs) ==
    /\ pc = "ready"
    /\ call' = [helper |-> "Get", url |-> url, jsonBody |-> "", hdrs |-> hdrs]
    /\ headers' = hdrs
    /\ Helper("GET", url, "nil", hdrs)
    /\ UNCHANGED <<second, reader, calls, options, hc, heap, sent, delays, log>>

Post(url, body, hdrs) ==
    /\ pc = "ready"
    /\ call' = [helper |-> "Post", url |-> url, jsonBody |-> "", hdrs |-> hdrs]
    /\ headers' = hdrs
    /\ Helper("POST", url, body, hdrs)
    /\ UNCHANGED <<second, reader, calls, options, hc, heap, sent, delays, log>>

PutSendsPost(url, body, hdrs) ==
    /\ pc = "ready"
    /\ call' = [helper |-> "Put", url |-> url, jsonBody |-> "", hdrs |-> hdrs]
    /\ headers' = hdrs
    /\ Helper("POST", url, body, hdrs)
    /\ UNCHANGED <<second, reader, calls, options, hc, heap, sent, delays, log>>

Put(url, body, hdrs) ==
    /\ pc = "ready"
    /\ call' = [helper |-> "Put", url |-> url, jsonBody |-> "", hdrs |-> hdrs]
    /\ headers' = hdrs
    /\ Helper("PUT", url, body, hdrs)
    /\ UNCHANGED <<second, reader, calls, options, hc, heap, sent, delays, log>>

Delete(url, hdrs) ==
    /\ pc = "ready"
    /\ call' = [helper |-> "Delete", url |-> url, jsonBody |-> "", hdrs |-> hdrs]
    /\ headers' = hdrs
    /\ Helper("DELETE", url, "nil", hdrs)
    /\ UNCHANGED <<second, reader, calls, options, hc, heap, sent, delays, log>>

\* PostJSON: a nil map is replaced by a fresh one, a non-nil map is the
\* caller's own and receives the Content-Type entry.  The maps callers pass
\* here are nil or non-empty, so hdrs = NilMap is the test headers == nil.
PostJSON(url, jsonBody, hdrs) ==
    /\ pc = "ready"
    /\ call' = [helper |-> "PostJSON", url |-> url, jsonBody |-> jsonBody, hdrs |-> hdrs]
    /\ IF Marshals(jsonBody)
       THEN LET withType == [k \in DOMAIN hdrs \cup {"Content-Type"} |->
                               IF k = "Content-Type" THEN "application/json"
                               ELSE hdrs[k]]
            IN  /\ headers' = IF hdrs = NilMap THEN NilMap ELSE withType
                /\ Helper("POST", url, "json", withType)
       ELSE /\ headers' = hdrs
            /\ ReturnErr(MarshalErr)
    /\ UNCHANGED <<second, reader, calls, options, hc, heap, sent, delays, log>>

(***************************************************************************)
(* The loop of Do, one action per step of an iteration.                    *)
(***************************************************************************)
Printf(format, args) == Append(log, [logger |-> hc.logger, format |-> format, args |-> args])

\* the delay Do computes for retry j
RetryDelay(client, j) ==
    IF client.backoff.kind # "nil" THEN CallBackoff(client.backoff, j)
    ELSE {client.retryDelay}

\* if i > 0 { ...; Printf("Retrying ..."); time.Sleep(delay) }
DoSleep ==
    /\ pc = "loop"
    /\ LoopRuns(i, hc.retryCount)
    /\ i > 0
    /\ \E delay \in RetryDelay(hc, i) :
         IF hc.logger = NilLogger
         THEN /\ pc' = "panicked"
              /\ UNCHANGED <<log, delays>>
         ELSE /\ log' = Printf("Retrying request (%d/%d) after %v...",
                               <<i, hc.retryCount, delay>>)
              /\ delays' = Append(delays, delay)
              /\ pc' = "send"
    /\ UNCHANGED <<second, reader, calls, options, hc, heap, call, headers, req, i, lastErr, sent, ret>>

\* control is at resp, err := hc.client.Do(req)
AtSend == pc = "send" \/ (pc = "loop" /\ LoopRuns(i, hc.retryCount) /\ i = 0)

\* the entry of a send that has left and has no answer yet
InFlight(path, body) ==
    [path |-> path, err |-> FALSE, StatusCode |-> 0, closes |-> 0, body |-> body,
     answered |-> FALSE]

\* the entry of a send once hc.client.Do(req) has returned
Answered(entry, outcome, closes) ==
    [entry EXCEPT !.err = outcome.err, !.StatusCode = outcome.StatusCode,
                  !.closes = closes, !.answered = TRUE]

\* hc.client.Do(req) up to its wait for the answer: the request travels down
\* the RoundTrippers, which write its header, and Do blocks in the sending
\* transport.  read tells whether the transport takes what is left of the
\* body before it answers; it matters only while a body is left.
ClientDo(read) ==
    /\ AtSend
    /\ ~read => (req.Body # "nil" /\ ~req.BodyRead)
    /\ \E path \in RoundTrip(heap, hc.client.Transport, req.Header) :
         /\ sent' = Append(sent, InFlight(path, BodyLeft(req)))
         /\ req' = [req EXCEPT !.Header = path[Len(path)].header,
                               !.BodyRead = @ \/ (req.Body # "nil" /\ read)]
    /\ pc' = "wait"
    /\ UNCHANGED <<second, reader, calls, options, hc, heap, call, headers, i, lastErr,
                   delays, log, ret>>

\* hc.client.Do(req) returned with outcome
Deliver(outcome, closes) ==
    sent' = [sent EXCEPT ![Len(sent)] = Answered(@, outcome, closes)]

\* hc.client.Do(req) returned err != nil: log, lastErr = err, continue
DoFailed ==
    /\ pc = "wait"
    /\ Deliver([err |-> TRUE, StatusCode |-> 0], 0)
    /\ IF hc.logger = NilLogger
       THEN /\ pc' = "panicked"
            /\ UNCHANGED <<log, lastErr, i>>
       ELSE /\ log' = Printf("Request failed: %v", <<TransportErr(Len(sent))>>)
            /\ lastErr' = LastErrAfter(lastErr, TransportErr(Len(sent)))
            /\ i' = i + 1
            /\ pc' = "loop"
    /\ UNCHANGED <<second, reader, calls, options, hc, heap, call, headers, req, delays, ret>>

\* hc.client.Do(req) returned a response, whether or not the transport had
\* read the body: return it when 2xx, else log, record, close, continue
DoResponse(code) ==
    /\ pc = "wait"
    /\ IF Is2xx(code)
       THEN /\ Deliver([err |-> FALSE, StatusCode |-> code], BodyCloses(code))
            /\ ret' = [resp |-> [attempt |-> Len(sent), StatusCode |-> code],
                       err |-> NilErr]
            /\ pc' = "returned"
            /\ UNCHANGED <<i, lastErr, log>>
       ELSE IF hc.logger = NilLogger
       THEN /\ Deliver([err |-> FALSE, StatusCode |-> code], 0)
            /\ pc' = "panicked"
            /\ UNCHANGED <<log, lastErr, i, ret>>
       ELSE /\ Deliver([err |-> FALSE, StatusCode |-> code], BodyCloses(code))
            /\ log' = Printf("Received non-2xx response: %d", <<code>>)
            /\ lastErr' = LastErrAfter(lastErr, Non2xxErr)
            /\ i' = i + 1
            /\ pc' = "loop"
            /\ UNCHANGED <<ret>>
    /\ UNCHANGED <<second, reader, calls, options, hc, heap, call, headers, req, delays>>

\* the loop condition fails: return nil, lastErr
DoExhausted ==
    /\ pc = "loop"
    /\ ~LoopRuns(i, hc.retryCount)
    /\ ret' = [resp |-> NilResponse, err |-> lastErr]
    /\ pc' = "returned"
    /\ UNCHANGED <<second, reader, calls, options, hc, heap, call, headers, req, i, lastErr, sent, delays, log>>

(***************************************************************************)
(* Do called from several goroutines on one client.  Each call has its own *)
(* request and its own locals i and lastErr; the steps are those of the    *)
(* loop above, taken by one call at a time, and read hc and the transports *)
(* as they are when the step is taken.  log holds the lines the call gave  *)
(* to hc.logger.Printf.                                                    *)
(***************************************************************************)
\* the lastErr a call returns would be a field shared by all calls
LastErrOfAnyCall(cs, c) == cs[CHOOSE d \in DOMAIN cs : d # c].lastErr

\* return nil, lastErr: the local of the call
LastErrOfCall(cs, c) == cs[c].lastErr

CallPrintf(c, format, args) ==
    Append(calls[c].log, [logger |-> hc.logger, format |-> format, args |-> args])

CallUnchanged == <<pc, options, hc, heap, call, headers, req, i, lastErr, sent, delays,
                   log, ret, second, reader>>

\* go hc.Do(r)
CallDo(c, r) ==
    /\ pc = "ready"
    /\ calls[c].pc = "idle"
    /\ calls' = [calls EXCEPT ![c] = [IdleCall EXCEPT !.pc = "loop", !.req = r]]
    /\ UNCHANGED CallUnchanged

CallSleep(c) ==
    /\ calls[c].pc = "loop"
    /\ LoopRuns(calls[c].i, hc.retryCount)
    /\ calls[c].i > 0
    /\ \E delay \in RetryDelay(hc, calls[c].i) :
         IF hc.logger = NilLogger
         THEN calls' = [calls EXCEPT ![c].pc = "panicked"]
         ELSE
         calls' = [calls EXCEPT
                     ![c].log = CallPrintf(c, "Retrying request (%d/%d) after %v...",
                                           <<calls[c].i, hc.retryCount, delay>>),
                     ![c].delays = Append(@, delay),
                     ![c].pc = "send"]
    /\ UNCHANGED CallUnchanged

CallAtSend(c) ==
    \/ calls[c].pc = "send"
    \/ calls[c].pc = "loop" /\ LoopRuns(calls[c].i, hc.retryCount) /\ calls[c].i = 0

\* the call's hc.client.Do(req) up to its wait for the answer
CallClientDo(c, read) ==
    /\ CallAtSend(c)
    /\ ~read => (calls[c].req.Body # "nil" /\ ~calls[c].req.BodyRead)
    /\ \E path \in RoundTrip(heap, hc.client.Transport, calls[c].req.Header) :
         calls' = [calls EXCEPT
                     ![c].sent = Append(@, InFlight(path, BodyLeft(calls[c].req))),
                     ![c].req = [@ EXCEPT !.Header = path[Len(path)].header,
                                          !.BodyRead = @ \/ (calls[c].req.Body # "nil"
                                                               /\ read)],
                     ![c].pc = "wait"]
    /\ UNCHANGED CallUnchanged

\* the call's record after its hc.client.Do(req) returned with outcome
CallDeliver(c, outcome, closes) ==
    [calls[c] EXCEPT !.sent[Len(calls[c].sent)] = Answered(@, outcome, closes)]

CallFailed(c) ==
    /\ calls[c].pc = "wait"
    /\ LET e == TransportErr(Len(calls[c].sent))
           got == CallDeliver(c, [err |-> TRUE, StatusCode |-> 0], 0)
       IN  IF hc.logger = NilLogger
           THEN calls' = [calls EXCEPT ![c] = [got EXCEPT !.pc = "panicked"]]
           ELSE calls' = [calls EXCEPT ![c] =
                            [got EXCEPT
                               !.log = CallPrintf(c, "Request failed: %v", <<e>>),
                               !.lastErr = LastErrAfter(@, e),
                               !.i = @ + 1,
                               !.pc = "loop"]]
    /\ UNCHANGED CallUnchanged

CallResponse(c, code) ==
    /\ calls[c].pc = "wait"
    /\ LET got == CallDeliver(c, [err |-> FALSE, StatusCode |-> code], BodyCloses(code))
       IN  IF Is2xx(code)
           THEN calls' = [calls EXCEPT ![c] =
                            [got EXCEPT
                               !.ret = [resp |-> [attempt |-> Len(got.sent),
                                                  StatusCode |-> code],
                                        err |-> NilErr],
                               !.pc = "returned"]]
           ELSE IF hc.logger = NilLogger
           THEN calls' = [calls EXCEPT ![c] =
                            [CallDeliver(c, [err |-> FALSE, StatusCode |-> code], 0)
                               EXCEPT !.pc = "panicked"]]
           ELSE calls' = [calls EXCEPT ![c] =
                            [got EXCEPT
                               !.log = CallPrintf(c, "Received non-2xx response: %d",
                                                  <<code>>),
                               !.lastErr = LastErrAfter(@, Non2xxErr),
                               !.i = @ + 1,
                               !.pc = "loop"]]
    /\ UNCHANGED CallUnchanged

CallExhausted(c) ==
    /\ calls[c].pc = "loop"
    /\ ~LoopRuns(calls[c].i, hc.retryCount)
    /\ calls' = [calls EXCEPT
                   ![c].ret = [resp |-> NilResponse, err |-> LastErrOfCall(calls, c)],
                   ![c].pc = "returned"]
    /\ UNCHANGED CallUnchanged

(***************************************************************************)
(* ReadResponseBody and ReadJSONResponseBody.  A body stream yields the    *)
(* bytes of data and then ends, with io.EOF or with a read error; pos      *)
(* counts the bytes taken from it and closes the calls of Close.  A Go     *)
(* string is its sequence of bytes.                                        *)
(***************************************************************************)
EOFErr == [kind |-> "EOF", attempt |-> 0]
ReadErr == [kind |-> "read error", attempt |-> 0]
SyntaxErr == [kind |-> "invalid character", attempt |-> 0]
\* fmt.Errorf("unexpected status code: %d", resp.StatusCode)
StatusErr(code) == [kind |-> "unexpected status code: %d", attempt |-> code]

Stream(data, end) == [data |-> data, end |-> end, pos |-> 0, closes |-> 0]

\* resp.Body.Close()
Close(stream) == [stream EXCEPT !.closes = @ + 1]

\* io.ReadAll(resp.Body): everything up to the end of the stream, and the
\* error unless the end is io.EOF
ReadAll(stream) ==
    [bytes |-> stream.data,
     err |-> IF stream.end = "EOF" THEN NilErr ELSE ReadErr,
     stream |-> [stream EXCEPT !.pos = Len(stream.data)]]

\* if err != nil { return "", err }; return string(body), nil
ReadResponseBodyKeepsPartial(r) == [body |-> r.bytes, err |-> r.err]

ReadResponseBodyResult(r) ==
    IF r.err # NilErr THEN [body |-> <<>>, err |-> r.err]
    ELSE [body |-> r.bytes, err |-> NilErr]

IsSpace(b) == b \in {9, 10, 13, 32}
IsDigit(b) == b \in 48..57

\* the number of leading bytes of bs that satisfy the test
RECURSIVE LeadingSpaces(_)
LeadingSpaces(bs) ==
    IF bs # <<>> /\ IsSpace(Head(bs)) THEN 1 + LeadingSpaces(Tail(bs)) ELSE 0

RECURSIVE LeadingDigits(_)
LeadingDigits(bs) ==
    IF bs # <<>> /\ IsDigit(Head(bs)) THEN 1 + LeadingDigits(Tail(bs)) ELSE 0

\* the value of a decimal literal
RECURSIVE DecimalValue(_)
DecimalValue(digits) ==
    IF digits = <<>> THEN 0
    ELSE 10 * DecimalValue(SubSeq(digits, 1, Len(digits) - 1))
         + (digits[Len(digits)] - 48)

\* json.NewDecoder(resp.Body).Decode(target) for bodies made of spaces, the
\* digits 1 to 9 and letters: the decoder skips spaces and reads one number.
\* The number is complete at the first byte that is no digit or at io.EOF; a
\* read error that arrives while the number may still go on is returned, and
\* so is io.EOF when nothing but spaces came.  A letter where the value should
\* begin is a syntax error; a byte after the value is left for the next Decode.
Decode(stream, target) ==
    LET k == LeadingSpaces(stream.data)
        rest == SubSeq(stream.data, k + 1, Len(stream.data))
        n == LeadingDigits(rest)
        read == [stream EXCEPT !.pos = Len(stream.data)]
        fails(e) == [err |-> e, target |-> target, stream |-> read]
    IN  IF rest = <<>> THEN fails(IF stream.end = "EOF" THEN EOFErr ELSE ReadErr)
        ELSE IF n = 0 THEN fails(SyntaxErr)
        ELSE IF n = Len(rest) /\ stream.end # "EOF" THEN fails(ReadErr)
        ELSE [err |-> NilErr, target |-> DecimalValue(SubSeq(rest, 1, n)),
              stream |-> read]

\* resp.StatusCode < 200 || resp.StatusCode >= 300
UnexpectedStatusAbove300(code) == code < 200 \/ code > 300

UnexpectedStatus(code) == code < 200 \/ code >= 300

\* ReadResponseBody(resp); the deferred Close runs as it returns
ReadResponseBody(resp) ==
    /\ reader = NoRead
    /\ LET r == ReadAll(resp.Body)
           out == ReadResponseBodyResult(r)
       IN  reader' = [fn |-> "ReadResponseBody", StatusCode |-> resp.StatusCode,
                      Body |-> Close(r.stream), target |-> 0,
                      body |-> out.body, err |-> out.err, decoded |-> 0]
    /\ UNCHANGED <<pc, options, hc, heap, call, headers, req, i, lastErr, sent, delays,
                   log, ret, second, calls>>

\* ReadJSONResponseBody(resp, target); the deferred Close runs as it returns
ReadJSONResponseBody(resp, target) ==
    /\ reader = NoRead
    /\ IF UnexpectedStatus(resp.StatusCode)
       THEN reader' = [fn |-> "ReadJSONResponseBody", StatusCode |-> resp.StatusCode,
                       Body |-> Close(resp.Body), target |-> target,
                       body |-> <<>>, err |-> StatusErr(resp.StatusCode),
                       decoded |-> target]
       ELSE LET d == Decode(resp.Body, target)
            IN  reader' = [fn |-> "ReadJSONResponseBody", StatusCode |-> resp.StatusCode,
                           Body |-> Close(d.stream), target |-> target,
                           body |-> <<>>, err |-> d.err, decoded |-> d.target]
    /\ UNCHANGED <<pc, options, hc, heap, call, headers, req, i, lastErr, sent, delays,
                   log, ret, second, calls>>

(***************************************************************************)
(* The inputs the specifications draw from.                                *)
(***************************************************************************)
\* option lists of at most n options over the set S
Lists(S, n) == UNION {[1..k -> S] : k \in 0..n}

\* -1 stands for the negative counts WithRetry accepts
RetryCounts == (-1)..MaxRetry

\* 100ms; 2^53 + 1 ns, which float64 cannot hold; 2^62 ns, whose double
\* overflows int64
BaseDelays ==
    {Duration(100 * Millisecond),
     [neg |-> FALSE, bits |-> <<1>> \o Zeros(Float64MantissaBits - 1) \o <<1>>],
     [neg |-> FALSE, bits |-> <<1>> \o Zeros(Int64Bits - 1)]}

\* what a send can produce besides a transport error
StatusCodes == {199, 200, 299, 300, 500}

CallerHeaderMaps ==
    {NilMap,
     "X-App" :> "caller",
     "Content-Type" :> "text/plain",
     "content-type" :> "text/plain"}

DefaultHeaderMaps ==
    {"X-App" :> "myapp",
     "Content-Type" :> "text/xml",
     "X-App" :> "myapp" @@ "x-app" :> "other"}

RetryOptions ==
    {OptWithRetry(n, Duration(Second)) : n \in RetryCounts}
    \cup {OptWithExponentialBackoff(b) : b \in BaseDelays}

HelperOptions ==
    {OptWithRetry(MaxHelperRetry, ZeroDuration)}
    \cup {OptWithDefaultHeaders(m) : m \in DefaultHeaderMaps}
    \cup {OptWithTransport(CallerRoundTripper), OptWithTLSConfig("tlsA")}

AllOptions ==
    {OptWithRetry(n, d) : n \in RetryCounts, d \in {Duration(Millisecond), Duration(Second)}}
    \cup {OptWithExponentialBackoff(b) : b \in BaseDelays}
    \cup {OptWithLogger(l) : l \in {"loggerA", "loggerB"}}
    \cup {OptWithTransport(t) :
             t \in {CallerTransport, CallerRoundTripper, CallerTLSTransport}}
    \cup {OptWithTLSConfig(c) : c \in {"tlsA", "tlsB", NilTLS}}
    \cup {OptWithDefaultHeaders(m) : m \in DefaultHeaderMaps}
    \cup {OptWithTimeout(d) : d \in {Duration(Second), Duration(2 * Second)}}

PlainRequests ==
    {[NewRequest("GET", GoodURL, "nil") EXCEPT !.Header = "X-App" :> "caller"]}

(***************************************************************************)
(* Spec: the retry loop of Do under every retry and backoff configuration. *)
(***************************************************************************)
Next ==
    \/ \E opts \in Lists(RetryOptions, MaxOptions) : NewHTTPClient(opts)
    \/ \E r \in PlainRequests : Do(r)
    \/ DoSleep
    \/ \E read \in BOOLEAN : ClientDo(read)
    \/ DoFailed
    \/ \E code \in StatusCodes : DoResponse(code)
    \/ DoExhausted

Spec == Init /\ [][Next]_vars

(***************************************************************************)
(* SpecHelpers: the verb helpers over clients with default headers and     *)
(* replaced transports.                                                    *)
(***************************************************************************)
NextHelpers ==
    \/ \E opts \in Lists(HelperOptions, MaxOptions) : NewHTTPClient(opts)
    \/ \E url \in {GoodURL, BadURL}, m \in CallerHeaderMaps : Get(url, m)
    \/ \E url \in {GoodURL, BadURL}, m \in CallerHeaderMaps : Post(url, "payload", m)
    \/ \E url \in {GoodURL, BadURL}, m \in CallerHeaderMaps : Put(url, "payload", m)
    \/ \E url \in {GoodURL, BadURL}, m \in CallerHeaderMaps : Delete(url, m)
    \/ \E url \in {GoodURL, BadURL}, v \in {"object", "chan"}, m \in CallerHeaderMaps :
          PostJSON(url, v, m)
    \/ DoSleep
    \/ \E read \in BOOLEAN : ClientDo(read)
    \/ DoFailed
    \/ \E code \in {200, 500} : DoResponse(code)
    \/ DoExhausted

SpecHelpers == Init /\ [][NextHelpers]_vars

(***************************************************************************)
(* SpecOptions: NewHTTPClient over every option list.                      *)
(***************************************************************************)
NextOptions == \E opts \in Lists(AllOptions, MaxOptions) : NewHTTPClient(opts)

SpecOptions == Init /\ [][NextOptions]_vars

(***************************************************************************)
(* SpecClients: two clients constructed one after the other from the same  *)
(* option list.                                                            *)
(***************************************************************************)
NextClients ==
    \/ \E opts \in Lists(AllOptions, MaxOptions) : NewHTTPClient(opts)
    \/ NewHTTPClientAgain(options)

SpecClients == Init /\ [][NextClients]_vars

(***************************************************************************)
(* SpecShared: a second client constructed from a list of its own, whose   *)
(* options may name the transports the first list named.                   *)
(***************************************************************************)
SharedOptions ==
    {OptWithTransport(t) : t \in {CallerTransport, CallerRoundTripper}}
    \cup {OptWithTLSConfig(c) : c \in {"tlsA", "tlsB"}}
    \cup {OptWithDefaultHeaders("X-App" :> "myapp"),
          OptWithRetry(1, Duration(Second))}

NextShared ==
    \/ \E opts \in Lists(SharedOptions, MaxOptions) : NewHTTPClient(opts)
    \/ \E opts \in Lists(SharedOptions, MaxOptions) : NewHTTPClientAgain(opts)

SpecShared == Init /\ [][NextShared]_vars

(***************************************************************************)
(* SpecCalls: two goroutines call Do on one client, each with a request of *)
(* its own, and their steps interleave in every order.                     *)
(***************************************************************************)
CallOptionLists ==
    {<<OptWithRetry(n, Duration(Second))>> : n \in 0..MaxCallRetry}
    \cup {<<OptWithRetry(MaxCallRetry, Duration(Second)),
            OptWithExponentialBackoff(Duration(100 * Millisecond))>>,
          <<OptWithRetry(MaxCallRetry, Duration(Second)),
            OptWithDefaultHeaders("X-App" :> "myapp")>>}

CallRequest(c) ==
    [NewRequest("GET", GoodURL, "nil") EXCEPT
       !.Header = "X-App" :> (IF c = 1 THEN "first" ELSE "second")]

NextCalls ==
    \/ \E opts \in CallOptionLists : NewHTTPClient(opts)
    \/ \E c \in CallIds : CallDo(c, CallRequest(c))
    \/ \E c \in CallIds : CallSleep(c)
    \/ \E c \in CallIds, read \in BOOLEAN : CallClientDo(c, read)
    \/ \E c \in CallIds : CallFailed(c)
    \/ \E c \in CallIds, code \in {200, 404, 500} : CallResponse(c, code)
    \/ \E c \in CallIds : CallExhausted(c)

SpecCalls == Init /\ [][NextCalls]_vars

(***************************************************************************)
(* SpecStacked: Get through clients whose option lists stack several       *)
(* WithDefaultHeaders options, some naming the same header.                *)
(***************************************************************************)
StackedHeaderMaps ==
    {"X-App" :> "myapp", "X-App" :> "newer", "Content-Type" :> "text/xml"}

StackedOptions ==
    {OptWithDefaultHeaders(m) : m \in StackedHeaderMaps}
    \cup {OptWithRetry(1, ZeroDuration)}

NextStacked ==
    \/ \E opts \in Lists(StackedOptions, MaxOptions) : NewHTTPClient(opts)
    \/ \E m \in {NilMap, "X-App" :> "caller"} : Get(GoodURL, m)
    \/ DoSleep
    \/ \E read \in BOOLEAN : ClientDo(read)
    \/ DoFailed
    \/ \E code \in {200, 500} : DoResponse(code)
    \/ DoExhausted

SpecStacked == Init /\ [][NextStacked]_vars

(***************************************************************************)
(* SpecLogger: Do through clients built with and without WithLogger, the   *)
(* logger given being a logger of the caller or nil.                       *)
(***************************************************************************)
LoggerOptions ==
    {OptWithLogger(l) : l \in {"loggerA", "loggerB", NilLogger}}
    \cup {OptWithRetry(n, ZeroDuration) : n \in 0..MaxHelperRetry}

NextLogger ==
    \/ \E opts \in Lists(LoggerOptions, MaxOptions) : NewHTTPClient(opts)
    \/ \E r \in PlainRequests : Do(r)
    \/ DoSleep
    \/ \E read \in BOOLEAN : ClientDo(read)
    \/ DoFailed
    \/ \E code \in {200, 500} : DoResponse(code)
    \/ DoExhausted

SpecLogger == Init /\ [][NextLogger]_vars

(***************************************************************************)
(* SpecBody: Post, Put and PostJSON retried, with transports that answer   *)
(* or fail having read the body or not.                                    *)
(***************************************************************************)
NextBody ==
    \/ \E opts \in Lists({OptWithRetry(n, ZeroDuration) : n \in 0..MaxHelperRetry},
                         MaxOptions) : NewHTTPClient(opts)
    \/ \E m \in CallerHeaderMaps : Post(GoodURL, "payload", m)
    \/ \E m \in CallerHeaderMaps : Put(GoodURL, "payload", m)
    \/ \E m \in CallerHeaderMaps : PostJSON(GoodURL, "object", m)
    \/ DoSleep
    \/ \E read \in BOOLEAN : ClientDo(read)
    \/ DoFailed
    \/ \E code \in {200, 500} : DoResponse(code)
    \/ DoExhausted

SpecBody == Init /\ [][NextBody]_vars

(***************************************************************************)
(* SpecRead: the two response readers over every response whose body is    *)
(* at most MaxBody bytes long and ends with io.EOF or a read error.        *)
(***************************************************************************)
BodyBytes == {32, 49, 120}

Bodies == {Stream(d, e) : d \in Lists(BodyBytes, MaxBody), e \in {"EOF", "read error"}}

Responses == [StatusCode : StatusCodes, Body : Bodies]

Targets == {0, 7}

NextRead ==
    \/ \E resp \in Responses : ReadResponseBody(resp)
    \/ \E resp \in Responses, target \in Targets : ReadJSONResponseBody(resp, target)

SpecRead == Init /\ [][NextRead]_vars

(***************************************************************************)
(* Properties.                                                             *)
(***************************************************************************)
\* the k-th send has not produced a response with a status in [200,300): it
\* failed in the transport, got another status, or is still awaited
FailedSend(k) == sent[k].err \/ sent[k].StatusCode \notin 200..299

\* the header the k-th send carried when it reached the sending transport
Wire(k) == sent[k].path[Len(sent[k].path)].header

\* the index of the last option of the list whose name is in ops, else 0
LastOption(ops) ==
    LET js == {j \in 1..Len(options) : options[j].op \in ops}
    IN  IF js = {} THEN 0 ELSE CHOOSE j \in js : \A j2 \in js : j2 <= j

\* C1: with retryCount = N >= 0 and every attempt failing (a transport
\* error or a status outside [200,300)), a call of Do that has returned made
\* exactly N+1 sends and returned a nil response with a non-nil error; and
\* while it runs it never makes more than N+1 sends.
C1_PersistentFailure ==
    (hc.retryCount >= 0 /\ \A k \in 1..Len(sent) : FailedSend(k)) =>
        /\ Len(sent) <= hc.retryCount + 1
        /\ pc = "returned" =>
             /\ Len(sent) = hc.retryCount + 1
             /\ ret.resp = NilResponse
             /\ ret.err # NilErr

\* C1 witness: a client with two retries, three failed sends of both kinds,
\* and Do returned.
C1_Witness ==
    /\ pc = "returned"
    /\ hc.retryCount = 2
    /\ Len(sent) = 3
    /\ sent[1].err /\ ~sent[2].err /\ sent[2].StatusCode = 500 /\ sent[3].err
    /\ ret.resp = NilResponse

\* C2: when the k-th send is the first to give a 2xx response, k is at most
\* N+1, every earlier send failed, no send follows it, and Do has returned
\* that k-th response with a nil error after exactly k sends.
C2_FirstSuccessReturns ==
    \A k \in 1..Len(sent) :
        (~sent[k].err /\ sent[k].StatusCode \in 200..299) =>
            /\ k = Len(sent)
            /\ k <= hc.retryCount + 1
            /\ \A j \in 1..(k - 1) : FailedSend(j)
            /\ pc = "returned"
            /\ ret.resp = [attempt |-> k, StatusCode |-> sent[k].StatusCode]
            /\ ret.err = NilErr

\* C2 witness: the third send of a client with two retries succeeds after
\* a transport error and a 500, and Do returned it.
C2_Witness ==
    /\ pc = "returned"
    /\ hc.retryCount = 2
    /\ Len(sent) = 3
    /\ sent[1].err /\ sent[2].StatusCode = 500 /\ sent[3].StatusCode = 200
    /\ ret.resp.attempt = 3

\* C3: for a client built with WithRetry(N, D) and no WithExponentialBackoff
\* option, every delay Do waits before a retry is the fixed delay D.
C3_FixedRetryDelay ==
    (LastOption({"WithRetry"}) # 0 /\ LastOption({"WithExponentialBackoff"}) = 0) =>
        \A j \in 1..Len(delays) :
            delays[j] = options[LastOption({"WithRetry"})].retryDelay

\* C4: for a client built with WithExponentialBackoff(B), the delay before
\* retry i is exactly B * 2^(i-1), whatever WithRetry gave and in whatever
\* order the two options came.
C4_ExactExponentialDelay ==
    LastOption({"WithExponentialBackoff"}) # 0 =>
        LET B == options[LastOption({"WithExponentialBackoff"})].baseDelay
        IN  \A j \in 1..Len(delays) :
                delays[j] = [neg |-> FALSE, bits |-> Shl(B.bits, j - 1)]

\* C5: whenever Do has returned a non-nil response, it is the response of
\* the last send, its status is in [200,300) and the error is nil; a
\* response with a status outside [200,300) is never returned, whatever the
\* attempt.
C5_OnlySuccessReturned ==
    (pc = "returned" /\ ret.resp # NilResponse) =>
        /\ ret.resp.StatusCode \in 200..299
        /\ ret.err = NilErr
        /\ ret.resp.attempt = Len(sent)
        /\ ~sent[Len(sent)].err
        /\ sent[Len(sent)].StatusCode = ret.resp.StatusCode

\* C5 witness: Do returned a 299 response on the last attempt, after a 300
\* response that it kept from the caller.
C5_Witness ==
    /\ pc = "returned"
    /\ ret.resp # NilResponse
    /\ ret.resp.StatusCode = 299
    /\ Len(sent) = hc.retryCount + 1
    /\ Len(sent) >= 2
    /\ sent[1].StatusCode = 300

\* the names of the map m that no other name of m matches as a header name
UniqueNames(m) ==
    {n \in DOMAIN m :
        \A n2 \in DOMAIN m :
            CanonicalMIMEHeaderKey(n2) = CanonicalMIMEHeaderKey(n) => n2 = n}

\* the header decorator reached at hop h of the k-th send hands the request
\* to its base carrying, for each name of ns, the value of its own mapping
DecoratorStamps(k, h, ns) ==
    LET H == heap[sent[k].path[h].transport].headers
    IN  \A n \in ns \cap DOMAIN H :
            HeaderGet(sent[k].path[h + 1].header, n) = H[n]

\* C6 as stated: every request sent through a header decorator with mapping
\* H reaches the wrapped transport carrying H's value for each name in H,
\* on the first attempt and on every retry.
C6_EveryNameStamped ==
    \A k \in 1..Len(sent) :
        \A h \in 1..(Len(sent[k].path) - 1) :
            DecoratorStamps(k, h, DOMAIN heap[sent[k].path[h].transport].headers)

\* C6 amended: every request sent through a header decorator with mapping H
\* reaches the wrapped transport carrying H's value for each name in H that
\* no other name in H matches case-insensitively, whatever the caller set,
\* on the first attempt and on every retry.
C6_UniqueNamesStamped ==
    \A k \in 1..Len(sent) :
        \A h \in 1..(Len(sent[k].path) - 1) :
            DecoratorStamps(k, h, UniqueNames(heap[sent[k].path[h].transport].headers))

\* C6 witness: a request on which the caller set X-App went twice through a
\* decorator configured with X-App: myapp and reached the wrapped transport
\* with X-App: myapp both times.
C6_Witness ==
    /\ call.helper = "Get"
    /\ headers = ("X-App" :> "caller")
    /\ Len(sent) = 2
    /\ \A k \in 1..2 :
         /\ Len(sent[k].path) = 2
         /\ heap[sent[k].path[1].transport].headers = ("X-App" :> "myapp")
         /\ HeaderGet(sent[k].path[2].header, "X-App") = "myapp"
    /\ HeaderGet(sent[1].path[1].header, "X-App") = "caller"

\* C7: when the option list contains WithDefaultHeaders(H), whatever comes
\* before or after it, every request the client sends carries every header
\* name of H.
C7_DefaultHeadersOnEveryRequest ==
    \A k \in 1..Len(sent) :
        \A j \in 1..Len(options) :
            options[j].op = "WithDefaultHeaders" =>
                \A n \in DOMAIN options[j].headers :
                    CanonicalMIMEHeaderKey(n) \in DOMAIN Wire(k)

\* C8: for every PostJSON call with a serializable value, the request that
\* reaches the underlying transport carries Content-Type: application/json,
\* whatever headers the caller passed and whatever the default headers.
C8_PostJSONContentType ==
    (call.helper = "PostJSON" /\ call.jsonBody = "object") =>
        \A k \in 1..Len(sent) :
            HeaderGet(Wire(k), "Content-Type") = "application/json"

\* C9: a verb helper given a malformed target, or PostJSON given an
\* unserializable value, has returned a nil response and a non-nil error
\* with no send and no retry delay, for every retryCount.
C9_ConstructionErrorSendsNothing ==
    (call.helper # ""
       /\ (call.url = BadURL \/ (call.helper = "PostJSON" /\ call.jsonBody = "chan"))) =>
        /\ pc = "returned"
        /\ ret.resp = NilResponse
        /\ ret.err # NilErr
        /\ sent = <<>>
        /\ delays = <<>>
        /\ log = <<>>

\* C9 witness: Put with a malformed target on a client with one retry.
C9_Witness ==
    /\ call.helper = "Put"
    /\ call.url = BadURL
    /\ hc.retryCount = 1
    /\ pc = "returned"
    /\ ret.err = URLErr

\* C10: in the client NewHTTPClient returns, timeout, retry count, retry
\* delay, logger and transport each hold what the last option touching the
\* field set, and the default when no option touches it.
C10_LastOptionWins ==
    pc = "ready" =>
        LET t == LastOption({"WithTimeout"})
            r == LastOption({"WithRetry"})
            l == LastOption({"WithLogger"})
            x == LastOption({"WithTransport", "WithTLSConfig", "WithDefaultHeaders"})
            T == hc.client.Transport
        IN  /\ hc.client.Timeout = IF t = 0 THEN ZeroDuration ELSE options[t].timeout
            /\ hc.retryCount = IF r = 0 THEN 0 ELSE options[r].retryCount
            /\ hc.retryDelay = IF r = 0 THEN ZeroDuration ELSE options[r].retryDelay
            /\ hc.logger = IF l = 0 THEN DefaultLogger ELSE options[l].logger
            /\ x = 0 => T = NilTransport
            /\ (x # 0 /\ options[x].op = "WithTransport") => T = options[x].transport
            /\ (x # 0 /\ options[x].op = "WithTLSConfig") =>
                 /\ IsHTTPTransport(heap, T)
                 /\ heap[T].TLSClientConfig = options[x].tlsConfig
            /\ (x # 0 /\ options[x].op = "WithDefaultHeaders") =>
                 /\ T # NilTransport
                 /\ heap[T].kind = "headerTransport"
                 /\ heap[T].headers = options[x].headers

\* C10 witness: two timeout options with different values; the client holds
\* the second.
C10_Witness ==
    /\ pc = "ready"
    /\ Len(options) = 2
    /\ options[1].op = "WithTimeout"
    /\ options[2].op = "WithTimeout"
    /\ options[1].timeout # options[2].timeout
    /\ hc.client.Timeout = options[2].timeout

\* the RoundTrippers from t down to the transport that sends, each by its
\* type, TLS config and header mapping
RECURSIVE Chain(_, _)
Chain(hp, t) ==
    IF t = NilTransport THEN <<>>
    ELSE <<[kind |-> hp[t].kind, TLSClientConfig |-> hp[t].TLSClientConfig,
            headers |-> hp[t].headers]>>
         \o (IF hp[t].kind = "headerTransport" THEN Chain(hp, hp[t].base) ELSE <<>>)

\* what a caller can observe of a client's configuration
ObservableConfig(client, hp) ==
    [Timeout |-> client.client.Timeout,
     retryCount |-> client.retryCount,
     retryDelay |-> client.retryDelay,
     logger |-> client.logger,
     backoff |-> [a \in 1..(MaxRetry + 1) |-> CallBackoff(client.backoff, a)],
     chain |-> Chain(hp, client.client.Transport)]

\* WithTLSConfig(c) applied last kept a standard transport that was current,
\* changing only its TLS config to c and nothing else in the client; with no
\* transport, a header decorator or a custom round-tripper current it
\* installed a fresh standard transport carrying only c and left the old
\* objects alone
TLSConfigInPlaceOrFresh ==
    LET c == options[Len(options)].tlsConfig
        before == BuildClient(InitialHeap, SubSeq(options, 1, Len(options) - 1))
        T0 == before.hc.client.Transport
        T == hc.client.Transport
    IN  /\ hc = [before.hc EXCEPT !.client.Transport = T]
        /\ IF T0 # NilTransport /\ before.heap[T0].kind = "http.Transport"
           THEN /\ T = T0
                /\ heap = [before.heap EXCEPT ![T0].TLSClientConfig = c]
           ELSE /\ T = Len(before.heap) + 1
                /\ heap = Append(before.heap,
                                 [kind |-> "http.Transport", TLSClientConfig |-> c,
                                  base |-> NilTransport, headers |-> NilMap])

\* the list is WithTransport(t);WithTLSConfig(c) and the client built from
\* WithTLSConfig(c);WithTransport(t) has the same observable configuration
OrdersCoincide ==
    LET swapped == BuildClient(InitialHeap, <<options[2], options[1]>>)
    IN  ObservableConfig(swapped.hc, swapped.heap) = ObservableConfig(hc, heap)

\* C11 as stated: WithTLSConfig(c) applied last keeps a standard transport
\* that is current, changing only its TLS config to c, and otherwise installs
\* a fresh standard transport carrying only c; and WithTransport(t);
\* WithTLSConfig(c) always gives another configuration than
\* WithTLSConfig(c);WithTransport(t).
C11_TLSConfigInPlaceOrFresh ==
    (pc = "ready" /\ options # <<>> /\ options[Len(options)].op = "WithTLSConfig") =>
        /\ TLSConfigInPlaceOrFresh
        /\ (Len(options) = 2 /\ options[1].op = "WithTransport") => ~OrdersCoincide

\* C11 amended: WithTLSConfig(c) applied last keeps a standard transport that
\* is current, changing only its TLS config to c, and otherwise installs a
\* fresh standard transport carrying only c; and WithTransport(t);
\* WithTLSConfig(c) gives another configuration than WithTLSConfig(c);
\* WithTransport(t) exactly when t is not a standard transport that carried
\* c already (nil counting as a config): when it is, the two orders give
\* the same configuration.
C11_OrdersDifferUnlessConfigKept ==
    (pc = "ready" /\ options # <<>> /\ options[Len(options)].op = "WithTLSConfig") =>
        /\ TLSConfigInPlaceOrFresh
        /\ (Len(options) = 2 /\ options[1].op = "WithTransport") =>
               LET t == options[1].transport
                   c == options[2].tlsConfig
               IN  OrdersCoincide <=>
                       (IsHTTPTransport(InitialHeap, t)
                          /\ InitialHeap[t].TLSClientConfig = c)

\* C11 witness: WithTransport(t) with a standard transport that carries
\* another config, then WithTLSConfig(c): the client still holds t, t now
\* carries c, no transport was made, and the other order leaves t as it was.
C11_Witness ==
    /\ pc = "ready"
    /\ options = <<OptWithTransport(CallerTLSTransport), OptWithTLSConfig("tlsB")>>
    /\ hc.client.Transport = CallerTLSTransport
    /\ InitialHeap[CallerTLSTransport].TLSClientConfig = "tlsA"
    /\ heap[CallerTLSTransport].TLSClientConfig = "tlsB"
    /\ Len(heap) = Len(InitialHeap)
    /\ ~OrdersCoincide

\* C12: ReadJSONResponseBody closes the body exactly once on every path; on
\* a status outside [200,300) it returns a non-nil error, takes no byte from
\* the body and leaves the target as it was; on a status in [200,300) it
\* returns what the decoder returns for the body and the target holds what the
\* decoder stored.
C12_ReadJSONStatusGate ==
    reader.fn = "ReadJSONResponseBody" =>
        /\ reader.Body.closes = 1
        /\ reader.StatusCode \notin 200..299 =>
               /\ reader.err # NilErr
               /\ reader.Body.pos = 0
               /\ reader.decoded = reader.target
        /\ reader.StatusCode \in 200..299 =>
               LET d == Decode(Stream(reader.Body.data, reader.Body.end), reader.target)
               IN  /\ reader.err = d.err
                   /\ reader.decoded = d.target
                   /\ (reader.Body.data = <<49>> /\ reader.Body.end = "EOF") =>
                          (reader.err = NilErr /\ reader.decoded = 1)
                   /\ reader.Body.data = <<>> => reader.err # NilErr

\* C12 witness: a 500 response whose body holds a number: the error names the
\* status, no byte was read, the target is untouched and the body is closed.
C12_Witness ==
    /\ reader.fn = "ReadJSONResponseBody"
    /\ reader.StatusCode = 500
    /\ reader.Body.data = <<49>>
    /\ reader.err = StatusErr(500)
    /\ reader.Body.pos = 0
    /\ reader.target = 7 /\ reader.decoded = 7
    /\ reader.Body.closes = 1

\* C13: ReadResponseBody returns every byte the stream yields and a nil error
\* when the stream ends with io.EOF, and the empty string with the read error
\* when the stream fails; either way the body has been closed when it returns.
C13_ReadAllOrNothing ==
    reader.fn = "ReadResponseBody" =>
        /\ reader.Body.closes = 1
        /\ reader.Body.end = "EOF" =>
               (reader.body = reader.Body.data /\ reader.err = NilErr)
        /\ reader.Body.end # "EOF" =>
               (reader.body = <<>> /\ reader.err = ReadErr)

\* C13 witness: a stream that yields two bytes and then fails: the caller
\* gets the empty string and the read error, and the body is closed.
C13_Witness ==
    /\ reader.fn = "ReadResponseBody"
    /\ reader.Body.data = <<49, 32>>
    /\ reader.Body.end = "read error"
    /\ reader.body = <<>> /\ reader.err = ReadErr
    /\ reader.Body.closes = 1

\* C14: a second client constructed from the option list of the first has
\* the same timeout, retry count, retry delay and logger, the same backoff
\* delay at every attempt index, and a chain of RoundTrippers of the same
\* types with the same TLS configs and header mappings.
C14_SameOptionsSameConfiguration ==
    (second.built /\ second.options = options) =>
        ObservableConfig(second.hc, heap) = ObservableConfig(hc, heap)

\* C14 witness: both clients were built from WithDefaultHeaders(m): each has
\* a decorator of its own, and the two decorators carry the same mapping.
C14_Witness ==
    /\ second.built
    /\ second.options = options
    /\ Len(options) = 1 /\ options[1].op = "WithDefaultHeaders"
    /\ second.hc.client.Transport # hc.client.Transport
    /\ heap[second.hc.client.Transport].headers = heap[hc.client.Transport].headers

\* the k-th send of call c has not produced a status in [200,300)
CallFailedSend(c, k) == calls[c].sent[k].err \/ calls[c].sent[k].StatusCode \notin 200..299

\* the header the k-th send of call c carried when it reached the transport
CallWire(c, k) == calls[c].sent[k].path[Len(calls[c].sent[k].path)].header

\* C15: while Do calls on different requests interleave, the client and its
\* transports stay as NewHTTPClient left them, and what each call sends, how
\* long it sleeps and what it returns follow from the configuration and the
\* outcomes of its own attempts alone: every send starts from the call's own
\* request, the j-th delay is the configured delay of retry j, a 2xx outcome
\* is returned with a nil error, and a call whose attempts all failed made
\* retryCount+1 of them and returns the error of its own last attempt.
C15_CallsIndependent ==
    /\ pc # "new" =>
           /\ hc = BuildClient(InitialHeap, options).hc
           /\ heap = BuildClient(InitialHeap, options).heap
    /\ \A c \in CallIds :
         LET cr == calls[c]
             n == Len(cr.sent)
         IN  /\ \A k \in 1..n :
                  cr.sent[k].path \in
                      RoundTrip(heap, hc.client.Transport,
                                IF k = 1 THEN CallRequest(c).Header ELSE CallWire(c, k - 1))
             /\ \A j \in 1..Len(cr.delays) : cr.delays[j] \in RetryDelay(hc, j)
             /\ cr.pc = "returned" =>
                  /\ n >= 1
                  /\ Len(cr.delays) = n - 1
                  /\ \A k \in 1..(n - 1) : CallFailedSend(c, k)
                  /\ IF CallFailedSend(c, n)
                     THEN /\ n = hc.retryCount + 1
                          /\ cr.ret = [resp |-> NilResponse,
                                       err |-> IF cr.sent[n].err THEN TransportErr(n)
                                               ELSE Non2xxErr]
                     ELSE cr.ret = [resp |-> [attempt |-> n,
                                              StatusCode |-> cr.sent[n].StatusCode],
                                    err |-> NilErr]

\* C15 witness: the first call has returned the transport error of its second
\* attempt while the second call, whose first attempt got a non-2xx status,
\* waits for the answer to its second.
C15_Witness ==
    /\ calls[1].pc = "returned"
    /\ calls[1].ret.err = TransportErr(2)
    /\ calls[2].pc = "wait"
    /\ Len(calls[2].sent) = 2
    /\ calls[2].lastErr = Non2xxErr
    /\ calls[1].req # calls[2].req

\* the method and the body each verb helper gives to http.NewRequest
VerbOf(helper) ==
    CASE helper = "Get" -> [Method |-> "GET", Body |-> "nil"]
      [] helper = "Post" -> [Method |-> "POST", Body |-> "payload"]
      [] helper = "Put" -> [Method |-> "PUT", Body |-> "payload"]
      [] helper = "Delete" -> [Method |-> "DELETE", Body |-> "nil"]

\* C16: the request Get, Post, Put and Delete hand to Do has the helper's
\* method, no body for Get and Delete and the given body for Post and Put,
\* and carries exactly the caller's header entries; and every helper, PostJSON
\* included, runs the loop of Do: the j-th delay is the configured delay of
\* retry j, every send but the last failed, a 2xx response is returned at
\* once, and a call whose sends all failed made retryCount+1 of them.
C16_HelpersDelegateToDo ==
    (call.helper \in {"Get", "Post", "Put", "Delete", "PostJSON"}
       /\ call.url = GoodURL /\ call.jsonBody # "chan") =>
        /\ call.helper # "PostJSON" =>
             LET built == IF sent = <<>> THEN req.Header ELSE sent[1].path[1].header
             IN  /\ req.Method = VerbOf(call.helper).Method
                 /\ req.Body = VerbOf(call.helper).Body
                 /\ req.URL = call.url
                 /\ DOMAIN built = {CanonicalMIMEHeaderKey(n) : n \in DOMAIN headers}
                 /\ \A n \in DOMAIN headers : HeaderGet(built, n) = headers[n]
        /\ pc \in {"loop", "send", "wait", "returned"}
        /\ Len(sent) <= hc.retryCount + 1
        /\ \A j \in 1..Len(delays) : delays[j] \in RetryDelay(hc, j)
        /\ \A k \in 1..(Len(sent) - 1) : FailedSend(k)
        /\ pc = "returned" =>
             /\ Len(delays) = Len(sent) - 1
             /\ IF FailedSend(Len(sent))
                THEN Len(sent) = hc.retryCount + 1 /\ ret.resp = NilResponse
                                                   /\ ret.err # NilErr
                ELSE ret.resp.attempt = Len(sent) /\ ret.err = NilErr

\* C16 witness: Delete with a caller header on a client with one retry has
\* sent the DELETE request twice and returned the failure.
C16_Witness ==
    /\ call.helper = "Delete"
    /\ req.Method = "DELETE" /\ req.Body = "nil"
    /\ headers = ("X-App" :> "caller")
    /\ hc.retryCount = 1
    /\ pc = "returned"
    /\ Len(sent) = 2
    /\ ret.resp = NilResponse

\* the sends of the call whose response body is still open
OpenBodies == {k \in 1..Len(sent) : sent[k].answered /\ ~sent[k].err /\ sent[k].closes = 0}

\* C17: at every step of a Do call, each non-2xx response received so far
\* has had its body closed exactly once, so it is closed before the next send
\* and before Do returns; Do never closes the body of a 2xx response; and
\* when Do has returned, the open bodies are that of the returned response
\* and no other.
C17_Non2xxBodiesClosed ==
    /\ \A k \in 1..Len(sent) :
         (sent[k].answered /\ ~sent[k].err) =>
            sent[k].closes = (IF sent[k].StatusCode \in 200..299 THEN 0 ELSE 1)
    /\ pc \in {"loop", "send", "wait"} => OpenBodies = {}
    /\ pc = "returned" =>
         OpenBodies = (IF ret.resp = NilResponse THEN {} ELSE {ret.resp.attempt})

\* C17 witness: a 500 response and then a 200 response: the first body was
\* closed once, the second is open and is the one returned.
C17_Witness ==
    /\ pc = "returned"
    /\ Len(sent) = 2
    /\ sent[1].StatusCode = 500 /\ sent[1].closes = 1
    /\ sent[2].StatusCode = 200 /\ sent[2].closes = 0
    /\ ret.resp.attempt = 2
    /\ OpenBodies = {2}

\* C18: when Do has run out of attempts it returns the error of the last
\* attempt: the transport's error of that attempt when the send failed, the
\* non-2xx marker when a response came back; never the error of an earlier
\* attempt.
C18_LastAttemptsError ==
    (pc = "returned" /\ ret.resp = NilResponse /\ sent # <<>>) =>
        ret.err = (IF sent[Len(sent)].err THEN TransportErr(Len(sent)) ELSE Non2xxErr)

\* C18 witness: the first attempt fails in the transport, the second gets a
\* non-2xx status, and Do returns the marker, not the transport's error.
C18_Witness ==
    /\ pc = "returned"
    /\ Len(sent) = 2
    /\ sent[1].err
    /\ ~sent[2].err /\ sent[2].StatusCode = 500
    /\ ret.resp = NilResponse
    /\ ret.err = Non2xxErr

\* C19: when two WithDefaultHeaders options of the list name the same header
\* with different values, every request reaches the sending transport with
\* the value of the later option.
C19_LaterDefaultHeaderWins ==
    \A k \in 1..Len(sent) :
        \A j1, j2 \in 1..Len(options) :
            (j1 < j2 /\ options[j1].op = "WithDefaultHeaders"
                     /\ options[j2].op = "WithDefaultHeaders") =>
                \A n \in DOMAIN options[j1].headers \cap DOMAIN options[j2].headers :
                    options[j1].headers[n] # options[j2].headers[n] =>
                        HeaderGet(Wire(k), n) = options[j2].headers[n]

\* the first attempt of call c that produced a status in [200,300), or 0
FirstSuccess(c) ==
    LET ok == {k \in 1..Len(calls[c].sent) : ~CallFailedSend(c, k)}
    IN  IF ok = {} THEN 0 ELSE CHOOSE k \in ok : \A m \in ok : k <= m

\* C20: two Do runs on one client whose attempts agree on which of them
\* produced a status in [200,300), and differ at most in the non-2xx codes
\* and transport errors seen, have made the same number of sends, slept the
\* same delays and both returned a response or both none; and a run whose
\* attempts all got non-2xx responses returns the one marker error, whatever
\* the status codes.
C20_RetryIgnoresFailureKind ==
    /\ \A c, d \in CallIds :
         (calls[c].pc = "returned" /\ calls[d].pc = "returned"
            /\ FirstSuccess(c) = FirstSuccess(d)) =>
              /\ Len(calls[c].sent) = Len(calls[d].sent)
              /\ calls[c].delays = calls[d].delays
              /\ (calls[c].ret.resp = NilResponse) = (calls[d].ret.resp = NilResponse)
    /\ \A c \in CallIds :
         (calls[c].pc = "returned"
            /\ \A k \in 1..Len(calls[c].sent) :
                 ~calls[c].sent[k].err /\ calls[c].sent[k].StatusCode \notin 200..299) =>
              calls[c].ret = [resp |-> NilResponse, err |-> Non2xxErr]

\* C20 witness: one run saw a transport error and then 404, the other 500
\* twice: both made two sends and one delay, and the second returns the
\* marker.
C20_Witness ==
    /\ calls[1].pc = "returned" /\ calls[2].pc = "returned"
    /\ Len(calls[1].sent) = 2 /\ Len(calls[2].sent) = 2
    /\ calls[1].sent[1].err /\ calls[1].sent[2].StatusCode = 404
    /\ calls[2].sent[1].StatusCode = 500 /\ calls[2].sent[2].StatusCode = 500
    /\ Len(calls[1].delays) = 1 /\ Len(calls[2].delays) = 1
    /\ calls[2].ret.err = Non2xxErr

\* C21: the attempts of one Do call follow one another: a send is awaited
\* only after the delay of its retry was taken, no delay precedes the first
\* send, none follows the last, and when Do has returned the number of delays
\* is the number of sends minus one.
C21_OneDelayBetweenSends ==
    /\ pc = "send" => (sent # <<>> /\ Len(delays) = Len(sent))
    /\ pc = "wait" => Len(delays) = Len(sent) - 1
    /\ pc = "loop" => Len(delays) = (IF sent = <<>> THEN 0 ELSE Len(sent) - 1)
    /\ (pc = "returned" /\ call.helper = "Do") => Len(delays) = Len(sent) - 1

\* C25: whatever the options, WithRetry with a zero or negative count
\* included, a Do call that has returned gave a response or an error and not
\* neither: exactly one of the two is nil.
C25_NeverNilNil ==
    (pc = "returned" /\ call.helper = "Do") =>
        (ret.resp = NilResponse) # (ret.err = NilErr)

\* C22: the client NewHTTPClient returns has a logger that is not nil: the
\* default logger when the list has no WithLogger, the logger of the last
\* WithLogger otherwise.
C22_LoggerNeverNil ==
    pc # "new" =>
        /\ hc.logger # NilLogger
        /\ hc.logger = (IF LastOption({"WithLogger"}) = 0 THEN DefaultLogger
                        ELSE options[LastOption({"WithLogger"})].logger)

\* C23: a Do call on a client NewHTTPClient built never aborts its caller,
\* and what it has done when it returns does not depend on the logger: a 2xx
\* response of the last send is returned with a nil error, and otherwise the
\* call made retryCount+1 sends and returns the error of the last of them.
C23_OutcomeWhateverLogger ==
    /\ pc # "panicked"
    /\ (pc = "returned" /\ sent # <<>>) =>
         IF FailedSend(Len(sent))
         THEN /\ Len(sent) = hc.retryCount + 1
              /\ ret = [resp |-> NilResponse,
                        err |-> IF sent[Len(sent)].err THEN TransportErr(Len(sent))
                                ELSE Non2xxErr]
         ELSE ret = [resp |-> [attempt |-> Len(sent),
                               StatusCode |-> sent[Len(sent)].StatusCode],
                     err |-> NilErr]

\* C24: every header decorator a constructed client holds wraps a transport
\* that is not nil; a WithDefaultHeaders applied last wraps the transport that
\* was current before it, or a new bare transport when there was none; and a
\* request passed down from the client's transport ends at a transport that
\* is not nil whenever a decorator is on its way.
C24_DecoratorBaseNonNil ==
    pc = "ready" =>
        /\ \A a \in 1..Len(heap) :
             heap[a].kind = "headerTransport" => heap[a].base \in 1..Len(heap)
        /\ (options # <<>> /\ options[Len(options)].op = "WithDefaultHeaders") =>
             LET before == BuildClient(InitialHeap, SubSeq(options, 1, Len(options) - 1))
                 T0 == before.hc.client.Transport
                 T == hc.client.Transport
                 n == Len(before.heap)
                 bare == [kind |-> "http.Transport", TLSClientConfig |-> NilTLS,
                          base |-> NilTransport, headers |-> NilMap]
             IN  /\ T = Len(heap)
                 /\ heap[T].kind = "headerTransport"
                 /\ heap[T].headers = options[Len(options)].headers
                 /\ IF T0 # NilTransport
                    THEN heap[T].base = T0 /\ SubSeq(heap, 1, Len(heap) - 1) = before.heap
                    ELSE /\ heap[T].base = n + 1
                         /\ SubSeq(heap, 1, n + 1) = Append(before.heap, bare)
                         /\ Len(heap) = n + 2
        /\ \A path \in RoundTrip(heap, hc.client.Transport, NilMap) :
             Len(path) > 1 => path[Len(path)].transport # NilTransport

\* C24 witness: WithDefaultHeaders alone: the client holds a decorator whose
\* base is a bare transport made for it.
C24_Witness ==
    /\ pc = "ready"
    /\ options = <<OptWithDefaultHeaders("X-App" :> "myapp")>>
    /\ heap[hc.client.Transport].kind = "headerTransport"
    /\ heap[hc.client.Transport].base = Len(InitialHeap) + 1
    /\ heap[Len(InitialHeap) + 1] = NewTransport(NilTLS)

\* C26: every send of a Post, Put or PostJSON call is given the whole body
\* the request was built with, the retries as the first attempt.
C26_BodyReplayedOnRetry ==
    call.helper \in {"Post", "Put", "PostJSON"} =>
        \A k \in 1..Len(sent) :
            sent[k].body = sent[1].body /\ sent[k].body = req.Body

\* C27: once a PostJSON call has been made, whether it returns a response or
\* an error, the header mapping the caller passed has the entries and values
\* it had when it was passed.
C27_PostJSONKeepsCallerMap ==
    call.helper = "PostJSON" => headers = call.hdrs

\* C28: after a second client has been constructed, from whatever list, the
\* first client's timeout, retry settings, logger, backoff and chain of
\* RoundTrippers, TLS configs included, are what they were when the first
\* was built.
C28_EarlierClientUnchanged ==
    second.built =>
        LET first == BuildClient(InitialHeap, options)
        IN  ObservableConfig(hc, heap) = ObservableConfig(first.hc, first.heap)
====
